---- MODULE Spec2Model ----
(***************************************************************************)
(* launch_vms.py: provisioning of virtual machines on remote hosts.        *)
(*                                                                         *)
(* main() starts one asyncio task per host (run_vms_on_single_host); a     *)
(* host task sets up the host network, then opens one session per VM and   *)
(* starts one task per VM (launch_single_vm).  Tasks are cooperative: a    *)
(* step of the model runs one remote operation (an await) to completion    *)
(* and then the synchronous code that follows it up to the next await.     *)
(* sys.exit(1) inside a task raises SystemExit, which asyncio re-raises    *)
(* out of the event loop: asyncio.run() then cancels every task that is    *)
(* still pending and the process exits with status 1.                      *)
(***************************************************************************)
EXTENDS Integers, Sequences, FiniteSets, TLC

VARIABLES
    cfg,               \* the configuration document: a sequence of host objects
    overwrite_image,   \* args.overwrite_image (--overwrite-image)
    kill_running_vms,  \* the kill_running_vms argument of run_vms_on_single_host
    exists,            \* exists[h]: the remote paths that exist on host h
    procs,             \* procs[h]: which hypervisor process holds which path
    hosts,             \* hosts[h]: the state of the task of host h
    vm,                \* vm[h][k]: the state of the task of VM k of host h
    aborted,           \* SystemExit left the event loop: pending tasks are cancelled
    mainpc             \* the position of main()

vars == <<cfg, overwrite_image, kill_running_vms, exists, procs, hosts, vm,
          aborted, mainpc>>

(***************************************************************************)
(* Bounds of the explored configurations.                                  *)
(***************************************************************************)
MaxIfaces == 3     \* longest interfaces list of a VM
MaxDisks == 1      \* most additional_disk_images of a VM
MaxHostNet == 2    \* longest host_network list of a host

Paths == {"p1", "p2"}

IfaceTypes == {"macvtap", "tap", "user", "wifi"}
HostNetTypes == {"bridge", "macvlan", "vxlan"}
DisplayModes == {"background", "terminal", "graphic", "curses"}

\* sequences over S of length 0..n
RECURSIVE SeqsUpTo(_, _)
SeqsUpTo(S, n) ==
    IF n = 0 THEN {<<>>}
    ELSE LET shorter == SeqsUpTo(S, n - 1)
         IN  shorter \cup {Append(q, x) : q \in {r \in shorter : Len(r) = n - 1}, x \in S}

(***************************************************************************)
(* Configuration documents.  A VM configuration lists, in `keys`, the keys *)
(* of the JSON object that the loop of launch_single_vm looks at, in       *)
(* document order; local_exists is os.path.exists(local_disk_image_path).  *)
(***************************************************************************)
NoDisplay == "none"   \* the document has no display_mode key

Disk(remote, local_exists) ==
    [remote_disk_image_path |-> remote, local_exists |-> local_exists]

VmCfg(keys, interfaces, display_mode, remote, local_exists, additional) ==
    [keys |-> keys, interfaces |-> interfaces, display_mode |-> display_mode,
     memory |-> "2G", cpu_count |-> "2", virtfs_path |-> "{pwd}",
     remote_disk_image_path |-> remote, local_exists |-> local_exists,
     additional_disk_images |-> additional]

\* host_network is a list, or None when the key is absent
None == [present |-> FALSE, list |-> <<>>]
HostNet(list) == [present |-> TRUE, list |-> list]

HostCfg(host_network, vms) == [host_network |-> host_network, vms |-> vms]

\* the disks of a VM: the primary disk is disk 0, additional disk d is disk d
DiskOf(c, d) ==
    IF d = 0 THEN Disk(c.remote_disk_image_path, c.local_exists)
    ELSE c.additional_disk_images[d]

NumDisks(c) == 1 + Len(c.additional_disk_images)

(***************************************************************************)
(* The task of one VM.                                                     *)
(*   pc            the await the task is suspended at, or how it ended     *)
(*   ki, ii        position in vm_configuration.items() and in interfaces  *)
(*   i             the slot counter of the interfaces loop                 *)
(*   d             drive_number: the disk ensure_file_image is working on  *)
(*   file_exists   the local of that name (last existence probe)           *)
(*   display_mode  the local of that name                                  *)
(*   args          the argument vector built so far                        *)
(*   log           the calls made to the collaborators, in order           *)
(*   err           which sys.exit(1) ended the task                        *)
(***************************************************************************)
Ev(op, arg, n, r) == [op |-> op, arg |-> arg, n |-> n, r |-> r]

NewVm ==
    [pc |-> "notcreated", ki |-> 1, ii |-> 0, i |-> 0, d |-> 0,
     file_exists |-> FALSE, display_mode |-> "",
     args |-> <<"-accel", "kvm", "-cpu", "max">>, log |-> <<>>, err |-> ""]

Exit(s, why) == [s EXCEPT !.pc = "failed", !.err = why]

Logged(s, e) == [s EXCEPT !.log = Append(@, e)]

(***************************************************************************)
(* Argument fragments.                                                     *)
(***************************************************************************)
\* MacVtap.get_args(i), Tap.get_args(i): a NIC descriptor bound to slot i
NicArgs(type, slot) == <<"-device", "virtio-net-pci," \o type \o ",addr=" \o ToString(slot)>>

\* User.get_args(): a user-mode networking descriptor, no slot
UserArgs == <<"-nic", "user">>

\* (mutation: every drive gets index 0)
DriveArgs_IndexZero(remote_path, drive_number) ==
    <<"-drive", "file=" \o remote_path \o ",format=qcow2,if=virtio,index=0,media=disk">>

DriveArgs(remote_path, drive_number) ==
    <<"-drive",
      "file=" \o remote_path \o ",format=qcow2,if=virtio,index="
              \o ToString(drive_number) \o ",media=disk">>

VirtfsArgs(path) ==
    <<"-virtfs", "local,path=" \o path \o ",security_model=mapped-xattr,mount_tag=share,id=share">>

\* "{pwd}" is replaced by os.getcwd()
VirtfsPath(value) == IF value = "{pwd}" THEN "/cwd" ELSE value

\* (mutation: a user-mode interface consumes a slot too)
SlotAfter_EveryType(type, i) == i + 1

\* the slot counter after an interface of the given type was handled
SlotAfter(type, i) == IF type \in {"macvtap", "tap"} THEN i + 1 ELSE i

\* (mutation: "graphic" does not set the local)
DisplayLocal_BackgroundOnly(value, old) == IF value = "background" THEN value ELSE old

\* display_mode local and argument fragment chosen by the display_mode key
DisplayLocal(value, old) ==
    IF value \in {"background", "graphic"} THEN value ELSE old

DisplayArgs(value) ==
    CASE value = "background" -> <<"-vga", "none", "-serial", "none", "-nographic">>
      [] value = "terminal" -> <<"-vga", "none", "-nographic">>
      [] value = "graphic" -> <<"-vga", "virtio">>
      [] OTHER -> <<>>

\* the execution discipline run_single_command is called with
Discipline(display_mode) ==
    IF display_mode = "background" \/ display_mode = "graphic" THEN "disown" ELSE "pty"

(***************************************************************************)
(* ensure_file_image: the synchronous code between its awaits.             *)
(***************************************************************************)
\* lines 18-22: entered for disk s.d; an empty remote path exits, otherwise
\* the task suspends in check_file_exists
ensure_file_image(c, s) ==
    IF DiskOf(c, s.d).remote_disk_image_path = ""
    THEN Exit(s, "remote_empty")
    ELSE [s EXCEPT !.pc = "ensure_check"]

\* (mutation: the VM is launched once its primary disk is ensured)
AfterEnsure_SkipAdditional(c, s) ==
    [Logged(s, Ev("ensure_return", DiskOf(c, s.d).remote_disk_image_path, s.d, TRUE))
       EXCEPT !.args = @ \o DriveArgs(DiskOf(c, s.d).remote_disk_image_path, s.d),
              !.d = @ + 1,
              !.pc = "launch"]

\* lines 127-145 after ensure_file_image returned for disk s.d: the drive
\* fragment is appended, then the next disk is ensured or the VM is launched
AfterEnsure(c, s) ==
    LET t == [Logged(s, Ev("ensure_return", DiskOf(c, s.d).remote_disk_image_path, s.d, TRUE))
                EXCEPT !.args = @ \o DriveArgs(DiskOf(c, s.d).remote_disk_image_path, s.d),
                       !.d = @ + 1]
    IN  IF t.d < NumDisks(c) THEN ensure_file_image(c, t)
        ELSE [t EXCEPT !.pc = "launch"]

\* (mutation: `and` for `or`)
MustStage_And(overwrite, file_exists) == overwrite /\ ~file_exists

\* (mutation: an absent image is not staged unless overwrite is set)
MustStage_OverwriteOnly(overwrite, file_exists) == overwrite

\* (mutation: the image is staged unconditionally)
MustStage_Always(overwrite, file_exists) == TRUE

\* line 30: is the image staged?
MustStage(overwrite, file_exists) == overwrite \/ ~file_exists

\* (mutation: the image is never copied)
Staging_NoCopy(c, s) == AfterEnsure(c, s)

\* lines 30-38: staging, once the probes are done
Staging(c, s) ==
    IF MustStage(overwrite_image, s.file_exists)
    THEN IF DiskOf(c, s.d).local_exists
         THEN [s EXCEPT !.pc = "ensure_copy"]
         ELSE Exit(s, "local_missing")
    ELSE AfterEnsure(c, s)

\* (mutation: the result of the in-use probe is ignored)
AfterEnsureValidate_Ignored(c, s, not_in_use) == Staging(c, s)

\* lines 24-28: what follows the in-use probe of ensure_file_image
AfterEnsureValidate(c, s, not_in_use) ==
    IF ~not_in_use THEN Exit(s, "in_use") ELSE Staging(c, s)

(***************************************************************************)
(* launch_single_vm: the synchronous code between its awaits.              *)
(***************************************************************************)
\* lines 122-127: the primary disk
DriveSetup(c, s) ==
    IF c.remote_disk_image_path = ""
    THEN Exit(s, "remote_empty")
    ELSE ensure_file_image(c, [s EXCEPT !.d = 0])

\* lines 62-120: the loop over vm_configuration.items(), run from position
\* (s.ki, s.ii) up to the next await (the create() of a macvtap or tap
\* interface), a sys.exit or the end of the loop
RECURSIVE RunKeys(_, _)
RunKeys(c, s) ==
    IF s.ki > Len(c.keys) THEN DriveSetup(c, s)
    ELSE LET key == c.keys[s.ki]
             next == [s EXCEPT !.ki = @ + 1]
         IN
         CASE key = "memory" ->
                RunKeys(c, [next EXCEPT !.args = @ \o <<"-m", c.memory>>])
           [] key = "cpu_count" ->
                RunKeys(c, [next EXCEPT !.args = @ \o <<"-smp", c.cpu_count>>])
           [] key = "virtfs_path" ->
                RunKeys(c, [next EXCEPT !.args = @ \o VirtfsArgs(VirtfsPath(c.virtfs_path))])
           [] key = "interfaces" ->
                IF s.ii = 0 THEN RunKeys(c, [s EXCEPT !.ii = 1, !.i = 4])
                ELSE IF s.ii > Len(c.interfaces) THEN RunKeys(c, next)
                ELSE LET type == c.interfaces[s.ii] IN
                     CASE type \in {"macvtap", "tap"} -> [s EXCEPT !.pc = "create"]
                       [] type = "user" ->
                            RunKeys(c, [Logged(s, Ev("create", "user", 0, TRUE))
                                          EXCEPT !.args = @ \o UserArgs,
                                                 !.i = SlotAfter(type, @),
                                                 !.ii = @ + 1])
                       [] OTHER -> Exit(s, "interface_type")
           [] key = "display_mode" ->
                IF c.display_mode \in {"background", "terminal", "graphic"}
                THEN RunKeys(c, [next EXCEPT
                                   !.display_mode = DisplayLocal(c.display_mode, @),
                                   !.args = @ \o DisplayArgs(c.display_mode)])
                ELSE Exit(s, "display_mode")
           [] OTHER -> RunKeys(c, next)

\* lines 56-62: what follows the existence probe of the primary disk
AfterCheck(c, s) ==
    IF s.file_exists THEN [s EXCEPT !.pc = "validate"] ELSE RunKeys(c, s)

\* (mutation: the result of the in-use probe of the primary disk is ignored)
AfterValidate_Ignored(c, s, not_in_use) == RunKeys(c, s)

\* lines 57-62: what follows the in-use probe of the primary disk
AfterValidate(c, s, not_in_use) ==
    IF ~not_in_use THEN Exit(s, "in_use") ELSE RunKeys(c, s)

(***************************************************************************)
(* The remote hosts, as the collaborators of async_process_utils and       *)
(* async_fs_utils see them.  A process is identified by its owner: VM k of *)
(* the host for a hypervisor launched by this run, 0 for a hypervisor that *)
(* was already running (one such process per path).                        *)
(***************************************************************************)
Holds(owner, path) == [owner |-> owner, path |-> path]

InUse(h, path) == \E e \in procs[h] : e.path = path

\* check_file_exists(remote_path, connectionWrapper)
check_file_exists(h, path) == path \in exists[h]

\* validate_image_use(remote_path, connectionWrapper, kill_running_vms):
\* TRUE iff no hypervisor holds the path once the probe is done
validate_image_use(h, path, kill) == ~InUse(h, path) \/ kill

\* the processes left by validate_image_use: with kill_running_vms, every
\* process holding the path is terminated
ProcsAfterProbe(h, path, kill) ==
    IF ~kill THEN procs[h]
    ELSE {e \in procs[h] :
            ~\E f \in procs[h] :
                /\ f.path = path
                /\ IF f.owner = 0 THEN e = f ELSE e.owner = f.owner}

\* the hypervisor started by run_single_command holds every disk of the VM
ProcsOfVm(c, k) ==
    {Holds(k, DiskOf(c, d).remote_disk_image_path) : d \in 0 .. NumDisks(c) - 1}

(***************************************************************************)
(* run_vms_on_single_host and setup_host_network: synchronous code.        *)
(*   pc       the await the host task is suspended at, or how it ended     *)
(*   idx      position in host_network, then in vms                        *)
(*   created  the host-network resources created so far, in order          *)
(***************************************************************************)
\* lines 174-183: the loop that opens a session and starts a task per VM
VmLoop(hc, hs, k) ==
    IF k > Len(hc.vms) THEN [hs EXCEPT !.pc = "gather", !.idx = k]
    ELSE [hs EXCEPT !.pc = "connect_vm", !.idx = k]

\* (mutation: an unknown host network type is skipped)
RECURSIVE setup_host_network_Skip(_, _, _)
setup_host_network_Skip(hc, hs, j) ==
    IF j > Len(hc.host_network.list) THEN VmLoop(hc, hs, 1)
    ELSE IF hc.host_network.list[j] \in {"bridge", "macvlan"}
         THEN [hs EXCEPT !.pc = "create_net", !.idx = j]
         ELSE setup_host_network_Skip(hc, hs, j + 1)

\* (mutation: the loop over host_network is left after its first item)
setup_host_network_FirstOnly(hc, hs, j) ==
    IF j > 1 \/ j > Len(hc.host_network.list) THEN VmLoop(hc, hs, 1)
    ELSE IF hc.host_network.list[j] \in {"bridge", "macvlan"}
         THEN [hs EXCEPT !.pc = "create_net", !.idx = j]
         ELSE [hs EXCEPT !.pc = "failed", !.idx = j]

\* lines 149-160: setup_host_network from item j on, up to the next await
setup_host_network(hc, hs, j) ==
    IF j > Len(hc.host_network.list) THEN VmLoop(hc, hs, 1)
    ELSE IF hc.host_network.list[j] \in {"bridge", "macvlan"}
         THEN [hs EXCEPT !.pc = "create_net", !.idx = j]
         ELSE [hs EXCEPT !.pc = "failed", !.idx = j]

\* lines 164-171: the host task up to its first await
run_vms_on_single_host(hc) ==
    LET hs == [pc |-> "start", idx |-> 0, created |-> <<>>]
    IN  IF hc.host_network.present THEN [hs EXCEPT !.pc = "connect_net"]
        ELSE VmLoop(hc, hs, 1)

(***************************************************************************)
(* Steps.  SystemExit raised by a step leaves the event loop at once:      *)
(* asyncio.run cancels the tasks still pending (none of them runs another  *)
(* step) and the process exits with status 1.                              *)
(***************************************************************************)
Hosts == 1 .. Len(cfg)
Vms(h) == 1 .. Len(cfg[h].vms)

SetVm(h, k, s) ==
    /\ vm' = [vm EXCEPT ![h][k] = s]
    /\ aborted' = (s.pc = "failed")
    /\ mainpc' = IF s.pc = "failed" THEN "exited" ELSE mainpc

SetHost(h, hs) ==
    /\ hosts' = [hosts EXCEPT ![h] = hs]
    /\ aborted' = (hs.pc = "failed")
    /\ mainpc' = IF hs.pc = "failed" THEN "exited" ELSE mainpc

\* line 171: the session of the host network is opened
ConnectNet(h) ==
    /\ ~aborted /\ hosts[h].pc = "connect_net"
    /\ SetHost(h, setup_host_network(cfg[h], hosts[h], 1))
    /\ UNCHANGED <<cfg, overwrite_image, kill_running_vms, exists, procs, vm>>

\* lines 153, 156: Bridge.create() or MacVlan.create()
CreateNet(h) ==
    /\ ~aborted /\ hosts[h].pc = "create_net"
    /\ LET hs == [hosts[h] EXCEPT
                    !.created = Append(@, cfg[h].host_network.list[hosts[h].idx])]
       IN  SetHost(h, setup_host_network(cfg[h], hs, hs.idx + 1))
    /\ UNCHANGED <<cfg, overwrite_image, kill_running_vms, exists, procs, vm>>

\* lines 177-181: the session of VM idx is opened and its task is created;
\* the task runs up to its first await, the existence probe of line 53
ConnectVm(h) ==
    /\ ~aborted /\ hosts[h].pc = "connect_vm"
    /\ LET k == hosts[h].idx IN
         /\ vm' = [vm EXCEPT ![h][k] =
                      [Logged(NewVm, Ev("session", "", 0, TRUE)) EXCEPT !.pc = "check"]]
         /\ hosts' = [hosts EXCEPT ![h] = VmLoop(cfg[h], hosts[h], k + 1)]
    /\ UNCHANGED <<cfg, overwrite_image, kill_running_vms, exists, procs, aborted, mainpc>>

\* lines 53-54: check_file_exists on the primary disk
Check(h, k) ==
    /\ ~aborted /\ vm[h][k].pc = "check"
    /\ LET c == cfg[h].vms[k]
           r == check_file_exists(h, c.remote_disk_image_path)
           s == [Logged(vm[h][k], Ev("check_file_exists", c.remote_disk_image_path, 0, r))
                   EXCEPT !.file_exists = r]
       IN  SetVm(h, k, AfterCheck(c, s))
    /\ UNCHANGED <<cfg, overwrite_image, kill_running_vms, exists, procs, hosts>>

\* line 57: validate_image_use on the primary disk, with kill_running_vms
Validate(h, k) ==
    /\ ~aborted /\ vm[h][k].pc = "validate"
    /\ LET c == cfg[h].vms[k]
           p == c.remote_disk_image_path
           r == validate_image_use(h, p, kill_running_vms)
           s == Logged(vm[h][k], Ev("validate_image_use", p, 0, r))
       IN  /\ procs' = [procs EXCEPT ![h] = ProcsAfterProbe(h, p, kill_running_vms)]
           /\ SetVm(h, k, AfterValidate(c, s, r))
    /\ UNCHANGED <<cfg, overwrite_image, kill_running_vms, exists, hosts>>

\* lines 86, 92: MacVtap.create() or Tap.create()
Create(h, k) ==
    /\ ~aborted /\ vm[h][k].pc = "create"
    /\ LET c == cfg[h].vms[k]
           s == vm[h][k]
       IN  SetVm(h, k, [Logged(s, Ev("create", c.interfaces[s.ii], 0, TRUE))
                          EXCEPT !.pc = "get_args"])
    /\ UNCHANGED <<cfg, overwrite_image, kill_running_vms, exists, procs, hosts>>

\* lines 87-88, 93-94: get_args(i), then the loop goes on
GetArgs(h, k) ==
    /\ ~aborted /\ vm[h][k].pc = "get_args"
    /\ LET c == cfg[h].vms[k]
           s == vm[h][k]
           type == c.interfaces[s.ii]
           t == [Logged(s, Ev("get_args", type, s.i, TRUE))
                   EXCEPT !.args = @ \o NicArgs(type, s.i),
                          !.i = SlotAfter(type, @),
                          !.ii = @ + 1]
       IN  SetVm(h, k, RunKeys(c, t))
    /\ UNCHANGED <<cfg, overwrite_image, kill_running_vms, exists, procs, hosts>>

\* line 22: check_file_exists of ensure_file_image
EnsureCheck(h, k) ==
    /\ ~aborted /\ vm[h][k].pc = "ensure_check"
    /\ LET c == cfg[h].vms[k]
           s == vm[h][k]
           p == DiskOf(c, s.d).remote_disk_image_path
           r == check_file_exists(h, p)
           t == [Logged(s, Ev("ensure_check", p, s.d, r)) EXCEPT !.file_exists = r]
       IN  SetVm(h, k, IF r THEN [t EXCEPT !.pc = "ensure_validate"] ELSE Staging(c, t))
    /\ UNCHANGED <<cfg, overwrite_image, kill_running_vms, exists, procs, hosts>>

\* line 25: validate_image_use of ensure_file_image (kill_running_vms is
\* not passed: the owner is not killed)
EnsureValidate(h, k) ==
    /\ ~aborted /\ vm[h][k].pc = "ensure_validate"
    /\ LET c == cfg[h].vms[k]
           s == vm[h][k]
           p == DiskOf(c, s.d).remote_disk_image_path
           r == validate_image_use(h, p, FALSE)
       IN  /\ procs' = [procs EXCEPT ![h] = ProcsAfterProbe(h, p, FALSE)]
           /\ SetVm(h, k, AfterEnsureValidate(c, Logged(s, Ev("ensure_validate", p, s.d, r)), r))
    /\ UNCHANGED <<cfg, overwrite_image, kill_running_vms, exists, hosts>>

\* line 34: copy_to_remote
EnsureCopy(h, k) ==
    /\ ~aborted /\ vm[h][k].pc = "ensure_copy"
    /\ LET c == cfg[h].vms[k]
           s == vm[h][k]
           p == DiskOf(c, s.d).remote_disk_image_path
       IN  /\ exists' = [exists EXCEPT ![h] = @ \cup {p}]
           /\ SetVm(h, k, AfterEnsure(c, Logged(s, Ev("copy_to_remote", p, s.d, TRUE))))
    /\ UNCHANGED <<cfg, overwrite_image, kill_running_vms, procs, hosts>>

\* lines 141-145: run_single_command starts the hypervisor; a disowned one
\* is not waited for, a pty one blocks the task until the process exits
Launch(h, k) ==
    /\ ~aborted /\ vm[h][k].pc = "launch"
    /\ LET c == cfg[h].vms[k]
           s == vm[h][k]
           how == Discipline(s.display_mode)
       IN  /\ procs' = [procs EXCEPT ![h] = @ \cup ProcsOfVm(c, k)]
           /\ SetVm(h, k, [Logged(s, Ev("run_single_command", how, 0, TRUE))
                             EXCEPT !.pc = IF how = "disown" THEN "done" ELSE "running"])
    /\ UNCHANGED <<cfg, overwrite_image, kill_running_vms, exists, hosts>>

\* line 145 returns: the hypervisor of a pty launch has exited (by itself, or
\* killed by a probe)
TerminalReturn(h, k) ==
    /\ ~aborted /\ vm[h][k].pc = "running"
    /\ procs' = [procs EXCEPT ![h] = {e \in @ : e.owner # k}]
    /\ SetVm(h, k, [vm[h][k] EXCEPT !.pc = "done"])
    /\ UNCHANGED <<cfg, overwrite_image, kill_running_vms, exists, hosts>>

\* (mutation: the host task does not wait for its VM tasks)
HostGather_NoWait(h) ==
    /\ ~aborted /\ hosts[h].pc = "gather"
    /\ hosts' = [hosts EXCEPT ![h].pc = "done"]
    /\ UNCHANGED <<cfg, overwrite_image, kill_running_vms, exists, procs, vm, aborted, mainpc>>

\* lines 183-185: every VM task of the host has finished
HostGather(h) ==
    /\ ~aborted /\ hosts[h].pc = "gather"
    /\ \A k \in Vms(h) : vm[h][k].pc = "done"
    /\ hosts' = [hosts EXCEPT ![h].pc = "done"]
    /\ UNCHANGED <<cfg, overwrite_image, kill_running_vms, exists, procs, vm, aborted, mainpc>>

\* lines 221-222: every host task has finished
MainGather ==
    /\ ~aborted /\ mainpc = "gather"
    /\ \A h \in Hosts : hosts[h].pc = "done"
    /\ mainpc' = "done"
    /\ UNCHANGED <<cfg, overwrite_image, kill_running_vms, exists, procs, hosts, vm, aborted>>

Next ==
    \/ \E h \in Hosts : ConnectNet(h)
    \/ \E h \in Hosts : CreateNet(h)
    \/ \E h \in Hosts : ConnectVm(h)
    \/ \E h \in Hosts : \E k \in Vms(h) : Check(h, k)
    \/ \E h \in Hosts : \E k \in Vms(h) : Validate(h, k)
    \/ \E h \in Hosts : \E k \in Vms(h) : Create(h, k)
    \/ \E h \in Hosts : \E k \in Vms(h) : GetArgs(h, k)
    \/ \E h \in Hosts : \E k \in Vms(h) : EnsureCheck(h, k)
    \/ \E h \in Hosts : \E k \in Vms(h) : EnsureValidate(h, k)
    \/ \E h \in Hosts : \E k \in Vms(h) : EnsureCopy(h, k)
    \/ \E h \in Hosts : \E k \in Vms(h) : Launch(h, k)
    \/ \E h \in Hosts : \E k \in Vms(h) : TerminalReturn(h, k)
    \/ \E h \in Hosts : HostGather(h)
    \/ MainGather

(***************************************************************************)
(* The explored runs: a configuration document, the --overwrite-image flag *)
(* and the state of each remote host when the run starts.                  *)
(***************************************************************************)
IfaceLists == SeqsUpTo(IfaceTypes, MaxIfaces)
HostNetLists == SeqsUpTo(HostNetTypes, MaxHostNet)
DiskChoices == {Disk(r, l) : r \in Paths \cup {""}, l \in BOOLEAN}
AdditionalLists == SeqsUpTo(DiskChoices, MaxDisks)

\* a host when the run starts: the paths that exist, and those held open by
\* a hypervisor that is already running
Worlds == {w \in [exists : SUBSET Paths, inuse : SUBSET Paths] : w.inuse \subseteq w.exists}

Scenario(c, ws, overwrite) == [cfg |-> c, worlds |-> ws, overwrite |-> overwrite]

\* one VM, every interfaces list
IfaceVms ==
    {VmCfg(<<"interfaces">>, ifs, NoDisplay, "p1", TRUE, <<>>) : ifs \in IfaceLists}
    \cup {VmCfg(<<"display_mode", "interfaces", "memory">>, ifs, "graphic", "p1", TRUE, <<>>) :
            ifs \in IfaceLists}

\* one VM, every display mode, in several document orders
DisplayVms ==
    {VmCfg(keys, ifs, dm, "p1", TRUE, <<>>) :
        keys \in {<<"display_mode">>, <<"memory", "display_mode", "cpu_count">>,
                  <<"interfaces", "display_mode">>, <<"virtfs_path", "display_mode", "interfaces">>},
        ifs \in {<<"tap">>, <<"user", "macvtap">>},
        dm \in DisplayModes}
    \cup {VmCfg(keys, <<"user">>, NoDisplay, "p1", TRUE, <<>>) :
            keys \in {<<>>, <<"memory">>, <<"interfaces", "cpu_count">>}}

\* one VM, every choice of disks
DiskVms ==
    {VmCfg(<<"memory">>, <<>>, NoDisplay, d.remote_disk_image_path, d.local_exists, adds) :
        d \in DiskChoices, adds \in AdditionalLists}

SingleVmScenarios ==
    {Scenario(<<HostCfg(None, <<v>>)>>, <<w>>, FALSE) :
        v \in IfaceVms \cup DisplayVms, w \in {[exists |-> {}, inuse |-> {}]}}
    \cup {Scenario(<<HostCfg(None, <<v>>)>>, <<w>>, o) :
            v \in DiskVms, w \in Worlds, o \in BOOLEAN}

\* one host, every host_network
PlainVm == VmCfg(<<"display_mode">>, <<"tap">>, "background", "p1", TRUE, <<>>)

HostNetScenarios ==
    {Scenario(<<HostCfg(hn, vms)>>, <<[exists |-> {"p1"}, inuse |-> {}]>>, FALSE) :
        hn \in {None} \cup {HostNet(l) : l \in HostNetLists},
        vms \in {<<>>, <<PlainVm>>, <<PlainVm, PlainVm>>}}

\* two hosts with two VMs each
TerminalVm == VmCfg(<<"display_mode">>, <<>>, "terminal", "p1", TRUE, <<>>)
WifiVm == VmCfg(<<"interfaces">>, <<"macvtap", "wifi">>, NoDisplay, "p2", TRUE, <<>>)
NoPathVm == VmCfg(<<"interfaces">>, <<"tap">>, NoDisplay, "", TRUE, <<>>)
BackgroundVm == VmCfg(<<"display_mode">>, <<>>, "background", "p1", TRUE, <<>>)

TopologyScenarios ==
    {Scenario(<<HostCfg(HostNet(<<"bridge">>), <<a1, a2>>), HostCfg(None, <<b1, b2>>)>>,
              <<w, [exists |-> {"p1"}, inuse |-> {}]>>, o) :
        a1 \in {BackgroundVm, TerminalVm, WifiVm, NoPathVm},
        a2 \in {BackgroundVm, TerminalVm},
        b1 \in {BackgroundVm},
        b2 \in {TerminalVm, WifiVm},
        w \in {[exists |-> {}, inuse |-> {}], [exists |-> {"p1"}, inuse |-> {"p1"}]},
        o \in {FALSE}}

Scenarios == SingleVmScenarios \cup HostNetScenarios \cup TopologyScenarios

\* a run starts: one task per host, each run up to its first await
InitFrom(sc, kill) ==
    /\ cfg = sc.cfg
    /\ overwrite_image = sc.overwrite
    /\ kill_running_vms = kill
    /\ exists = [h \in 1 .. Len(sc.cfg) |-> sc.worlds[h].exists]
    /\ procs = [h \in 1 .. Len(sc.cfg) |-> {Holds(0, p) : p \in sc.worlds[h].inuse}]
    /\ hosts = [h \in 1 .. Len(sc.cfg) |-> run_vms_on_single_host(sc.cfg[h])]
    /\ vm = [h \in 1 .. Len(sc.cfg) |-> [k \in 1 .. Len(sc.cfg[h].vms) |-> NewVm]]
    /\ aborted = FALSE
    /\ mainpc = "gather"

\* main(): lines 210-221 start one task per host; kill_running_vms is the
\* literal True of line 219
Init == \E sc \in Scenarios : InitFrom(sc, TRUE)

Spec == Init /\ [][Next]_vars

(***************************************************************************)
(* Vocabulary of the properties.                                           *)
(***************************************************************************)
HasKey(c, key) == \E j \in DOMAIN c.keys : c.keys[j] = key

\* the log positions of the calls of one kind
Calls(s, op) == {j \in DOMAIN s.log : s.log[j].op = op}

IsAttached(type) == type \in {"macvtap", "tap"}
AttachedIfaces(c) == SelectSeq(c.interfaces, IsAttached)

\* the interfaces loop of the VM has run to its end
IfacesDone(c, s) == HasKey(c, "interfaces") /\ s.ii > Len(c.interfaces)

\* C1: on every host, at most one live hypervisor process holds a given
\* remote disk image path, whatever the configuration (two VM entries may
\* name the same remote_disk_image_path).
C1_ExclusiveUse ==
    \A h \in Hosts : \A p \in Paths :
        Cardinality({e.owner : e \in {f \in procs[h] : f.path = p}}) <= 1

\* C2: a fatal condition in one VM task does not keep any sibling VM task
\* from running to completion: when the outcome of the run is known, every
\* VM task has settled, as done or as failed.
C2_SiblingsSettle ==
    (mainpc \in {"done", "exited"} /\ \E h \in Hosts : \E k \in Vms(h) : vm[h][k].pc = "failed")
        => \A h \in Hosts : \A k \in Vms(h) : vm[h][k].pc \in {"done", "failed"}

\* C3: the m-th call of get_args of a VM is made for its m-th VM-attached
\* interface (macvtap or tap, in document order) with slot 3 + m; user-mode
\* interfaces consume no slot; once the interfaces loop has ended, all N
\* VM-attached interfaces have got their slot: 4, 5, ..., 3 + N.
C3_SlotsSequential ==
    \A h \in Hosts : \A k \in Vms(h) :
        LET c == cfg[h].vms[k]
            s == vm[h][k]
            calls == Calls(s, "get_args")
            nth(j) == Cardinality({m \in calls : m <= j})
        IN  /\ \A j \in calls :
                /\ nth(j) <= Len(AttachedIfaces(c))
                /\ s.log[j].n = 3 + nth(j)
                /\ s.log[j].arg = AttachedIfaces(c)[nth(j)]
            /\ IfacesDone(c, s) => Cardinality(calls) = Len(AttachedIfaces(c))

C3_Witness ==
    \E h \in Hosts : \E k \in Vms(h) :
        /\ cfg[h].vms[k].interfaces = <<"macvtap", "user", "tap">>
        /\ IfacesDone(cfg[h].vms[k], vm[h][k])
        /\ Cardinality(Calls(vm[h][k], "get_args")) = 2

\* C4: the host-network resources of a host are created once each, in list
\* order, and when host_network is specified all of them exist before any
\* VM task of the host starts (before the session of any VM is opened).
C4_HostNetworkBarrier ==
    \A h \in Hosts :
        LET list == cfg[h].host_network.list
            made == hosts[h].created
        IN  /\ Len(made) <= Len(list)
            /\ \A j \in DOMAIN made : made[j] = list[j]
            /\ (\E k \in Vms(h) : vm[h][k].log # <<>>) => made = list

C4_Witness ==
    \E h \in Hosts :
        /\ cfg[h].host_network.list = <<"bridge", "macvlan">>
        /\ hosts[h].created = <<"bridge", "macvlan">>
        /\ \E k \in Vms(h) : vm[h][k].pc = "done"

\* C5: when the in-use probe of ensure_file_image finds the image held by a
\* hypervisor (no kill was requested), the call ends the task with the
\* in-use error and has made no bulk transfer for that disk, whatever
\* overwrite is and whether or not the local source exists.
C5_InUseIsFatal ==
    \A h \in Hosts : \A k \in Vms(h) :
        LET s == vm[h][k] IN
        \A j \in Calls(s, "ensure_validate") :
            ~s.log[j].r =>
                /\ s.pc = "failed" /\ s.err = "in_use"
                /\ j = Len(s.log)
                /\ \A m \in Calls(s, "copy_to_remote") : s.log[m].n # s.log[j].n

C5_Witness ==
    \E h \in Hosts : \E k \in Vms(h) :
        LET s == vm[h][k] IN
        /\ s.err = "in_use" /\ overwrite_image
        /\ DiskOf(cfg[h].vms[k], s.d).local_exists
        /\ s.log[Len(s.log)].op = "ensure_validate"

\* C6: when the existence probe of ensure_file_image finds a (non-empty)
\* remote path absent and the local source exists, the call makes exactly one
\* bulk transfer, of that disk to that path, and then returns normally,
\* whatever overwrite is.
C6_AbsentIsStagedOnce ==
    \A h \in Hosts : \A k \in Vms(h) :
        LET c == cfg[h].vms[k]
            s == vm[h][k]
        IN  \A j \in Calls(s, "ensure_check") :
                LET n == s.log[j].n IN
                (~s.log[j].r /\ DiskOf(c, n).local_exists) =>
                    \/ j = Len(s.log) /\ s.pc = "ensure_copy" /\ s.d = n
                    \/ /\ j + 2 <= Len(s.log)
                       /\ s.log[j + 1] = Ev("copy_to_remote", DiskOf(c, n).remote_disk_image_path, n, TRUE)
                       /\ s.log[j + 2].op = "ensure_return" /\ s.log[j + 2].n = n
                       /\ Cardinality({m \in Calls(s, "copy_to_remote") : s.log[m].n = n}) = 1

C6_Witness ==
    \E h \in Hosts : \E k \in Vms(h) :
        LET s == vm[h][k] IN
        \E j \in Calls(s, "ensure_check") :
            /\ ~s.log[j].r /\ ~overwrite_image
            /\ j + 2 <= Len(s.log)
            /\ s.log[j + 1].op = "copy_to_remote"
            /\ s.log[j + 2].op = "ensure_return"

\* C7: when the probes of ensure_file_image find the image present and not
\* in use and overwrite is false, the call makes no bulk transfer and
\* returns normally, whether or not a local source exists.
C7_IdleIsReused ==
    \A h \in Hosts : \A k \in Vms(h) :
        LET s == vm[h][k] IN
        \A j \in Calls(s, "ensure_validate") :
            LET n == s.log[j].n IN
            (s.log[j].r /\ ~overwrite_image) =>
                /\ s.log[j - 1].op = "ensure_check" /\ s.log[j - 1].r
                /\ j + 1 <= Len(s.log)
                /\ s.log[j + 1].op = "ensure_return" /\ s.log[j + 1].n = n
                /\ \A m \in Calls(s, "copy_to_remote") : s.log[m].n # n

C7_Witness ==
    \E h \in Hosts : \E k \in Vms(h) :
        LET s == vm[h][k] IN
        \E j \in Calls(s, "ensure_validate") :
            /\ s.log[j].r /\ ~overwrite_image
            /\ ~DiskOf(cfg[h].vms[k], s.log[j].n).local_exists
            /\ s.log[j + 1].op = "ensure_return"

\* the display_mode of the document, NoDisplay when it has no such key
DisplayOf(c) == IF HasKey(c, "display_mode") THEN c.display_mode ELSE NoDisplay

Has(args, a) == \E j \in DOMAIN args : args[j] = a
HasPair(args, a, b) == \E j \in DOMAIN args : j < Len(args) /\ args[j] = a /\ args[j + 1] = b

\* C8: every launch of a "background" VM has -nographic in its arguments and
\* every launch of a "graphic" VM has -vga virtio, and both are submitted
\* disowned; a "terminal" VM or one without display_mode key is submitted
\* with the blocking pty discipline.
C8_DisplayDiscipline ==
    \A h \in Hosts : \A k \in Vms(h) :
        LET s == vm[h][k]
            dm == DisplayOf(cfg[h].vms[k])
        IN  \A j \in Calls(s, "run_single_command") :
                /\ dm = "background" => Has(s.args, "-nographic") /\ s.log[j].arg = "disown"
                /\ dm = "graphic" => HasPair(s.args, "-vga", "virtio") /\ s.log[j].arg = "disown"
                /\ dm \in {"terminal", NoDisplay} => s.log[j].arg = "pty"

C8_Witness ==
    \E h \in Hosts : \E k \in Vms(h) :
        /\ DisplayOf(cfg[h].vms[k]) = "graphic"
        /\ vm[h][k].pc = "done"
        /\ HasPair(vm[h][k].args, "-vga", "virtio")
        /\ \E j \in Calls(vm[h][k], "run_single_command") : vm[h][k].log[j].arg = "disown"

\* C9: a VM with an interface of unsupported type is rejected before any
\* remote session is opened for it (so before any probe, interface creation
\* or transfer made for it).
C9_RejectedBeforeSession ==
    \A h \in Hosts : \A k \in Vms(h) :
        vm[h][k].err = "interface_type" => vm[h][k].log = <<>>

\* C10: a VM whose remote_disk_image_path is empty is rejected before any
\* remote action is made for it: no existence or in-use probe, no network
\* resource creation, no bulk transfer, no launch.
C10_RejectedBeforeRemoteAction ==
    \A h \in Hosts : \A k \in Vms(h) :
        LET s == vm[h][k] IN
        (cfg[h].vms[k].remote_disk_image_path = "" /\ s.err = "remote_empty") =>
            \A j \in DOMAIN s.log :
                /\ s.log[j].op \notin {"check_file_exists", "validate_image_use", "ensure_check",
                                       "ensure_validate", "copy_to_remote", "run_single_command"}
                /\ s.log[j].op = "create" => s.log[j].arg = "user"

\* the VM has come to the launch of lines 140-145
ReachedLaunch(s) == s.pc \in {"launch", "running", "done"}

Count(args, a) == Cardinality({j \in DOMAIN args : args[j] = a})

\* the drive fragment the hypervisor expects for a disk
ExpectedDrive(path, index) ==
    <<"-drive", "file=" \o path \o ",format=qcow2,if=virtio,index=" \o ToString(index) \o ",media=disk">>

\* C11: the argument vector of a VM that reaches launch with k additional
\* disks starts with the acceleration/CPU flags and ends with exactly k + 1
\* drive fragments, after every other argument: the primary disk with
\* index=0, then additional disk i with index=i; it has one memory flag if
\* memory is specified (none otherwise), and without interfaces and
\* additional disks exactly one drive fragment, at index=0.
C11_ArgumentVector ==
    \A h \in Hosts : \A k \in Vms(h) :
        LET c == cfg[h].vms[k]
            s == vm[h][k]
            n == NumDisks(c)
            first == Len(s.args) - 2 * n
        IN  ReachedLaunch(s) =>
                /\ first >= 4
                /\ SubSeq(s.args, 1, 4) = <<"-accel", "kvm", "-cpu", "max">>
                /\ \A d \in 0 .. n - 1 :
                      SubSeq(s.args, first + 2 * d + 1, first + 2 * d + 2)
                          = ExpectedDrive(DiskOf(c, d).remote_disk_image_path, d)
                /\ Count(s.args, "-drive") = n
                /\ Count(s.args, "-m") = IF HasKey(c, "memory") THEN 1 ELSE 0
                /\ (c.interfaces = <<>> /\ c.additional_disk_images = <<>>) =>
                      /\ Count(s.args, "-drive") = 1
                      /\ SubSeq(s.args, Len(s.args) - 1, Len(s.args))
                            = ExpectedDrive(c.remote_disk_image_path, 0)

C11_Witness ==
    \E h \in Hosts : \E k \in Vms(h) :
        /\ vm[h][k].pc = "running"
        /\ Len(cfg[h].vms[k].additional_disk_images) = 1
        /\ HasKey(cfg[h].vms[k], "memory")
        /\ Count(vm[h][k].args, "-drive") = 2

\* C12: a -drive fragment is in the argument vector of a VM only once the
\* ensure sequence of that disk has run to its end: the path is not empty,
\* it was probed for existence, probed for use and found idle if it exists,
\* staged if overwrite is set or it did not exist, and ensure_file_image has
\* returned; the launch is submitted after this has happened for every disk.
C12_EnsureBeforeDrive ==
    \A h \in Hosts : \A k \in Vms(h) :
        LET c == cfg[h].vms[k]
            s == vm[h][k]
            OfDisk(op, d) == {j \in Calls(s, op) : s.log[j].n = d}
        IN  /\ \A d \in 0 .. Count(s.args, "-drive") - 1 :
                /\ d < NumDisks(c)
                /\ DiskOf(c, d).remote_disk_image_path # ""
                /\ \E jc \in OfDisk("ensure_check", d) : \E jr \in OfDisk("ensure_return", d) :
                      /\ jc < jr
                      /\ s.log[jc].r =>
                            \E jv \in OfDisk("ensure_validate", d) :
                                jc < jv /\ jv < jr /\ s.log[jv].r
                      /\ (overwrite_image \/ ~s.log[jc].r) =>
                            \E jt \in OfDisk("copy_to_remote", d) : jc < jt /\ jt < jr
            /\ \A jl \in Calls(s, "run_single_command") :
                  /\ Count(s.args, "-drive") = NumDisks(c)
                  /\ \A d \in 0 .. NumDisks(c) - 1 :
                        \E jr \in OfDisk("ensure_return", d) : jr < jl

C12_Witness ==
    \E h \in Hosts : \E k \in Vms(h) :
        LET s == vm[h][k] IN
        /\ Calls(s, "run_single_command") # {}
        /\ Count(s.args, "-drive") = 2
        /\ \E jt \in Calls(s, "copy_to_remote") : s.log[jt].n = 1
        /\ \E jv \in Calls(s, "ensure_validate") : s.log[jv].n = 0

\* C13: once the probes of ensure_file_image have passed for a disk (absent,
\* or present and idle), staging is attempted exactly when overwrite is set
\* or the remote file does not exist; a staging attempt without local source
\* is fatal: no bulk transfer for that disk, and the VM is never launched.
C13_StagingRule ==
    \A h \in Hosts : \A k \in Vms(h) :
        LET c == cfg[h].vms[k]
            s == vm[h][k]
            OfDisk(op, d) == {j \in Calls(s, op) : s.log[j].n = d}
            Attempted(d) ==
                \/ OfDisk("copy_to_remote", d) # {}
                \/ s.d = d /\ s.pc = "ensure_copy"
                \/ s.d = d /\ s.err = "local_missing"
        IN  /\ \A jc \in Calls(s, "ensure_check") :
                LET d == s.log[jc].n
                    passed == ~s.log[jc].r
                                \/ \E jv \in OfDisk("ensure_validate", d) : s.log[jv].r
                IN  /\ passed => (Attempted(d) <=> (overwrite_image \/ ~s.log[jc].r))
                    /\ ~passed => ~Attempted(d)
                    /\ (Attempted(d) /\ ~DiskOf(c, d).local_exists) =>
                          /\ s.pc = "failed" /\ s.err = "local_missing" /\ s.d = d
            /\ s.err = "local_missing" =>
                  /\ s.pc = "failed"
                  /\ OfDisk("copy_to_remote", s.d) = {}
                  /\ Calls(s, "run_single_command") = {}
                  /\ OfDisk("ensure_check", s.d) # {}

C13_Witness ==
    \E h \in Hosts : \E k \in Vms(h) :
        LET s == vm[h][k] IN
        /\ s.err = "local_missing" /\ s.file_exists /\ overwrite_image
        /\ s.log[Len(s.log)].op = "ensure_validate"

\* C14: for the primary disk and for every additional disk, an in-use
\* conflict is fatal only when the caller did not request killing the owning
\* process; when it did (kill_running_vms), no in-use probe of the VM reports
\* a conflict and none ends the task.
C14_ConflictFollowsKillRequest ==
    \A h \in Hosts : \A k \in Vms(h) :
        LET s == vm[h][k] IN
        /\ \A j \in Calls(s, "validate_image_use") \cup Calls(s, "ensure_validate") :
              ~s.log[j].r => ~kill_running_vms /\ s.err = "in_use"
        /\ s.err = "in_use" => ~kill_running_vms

\* the display fragments of lines 112, 114 and 117
TerminalFragment(args) ==
    HasPair(args, "-vga", "none") /\ Has(args, "-nographic") /\ ~Has(args, "-serial")

DetachedFragment(args) ==
    \/ HasPair(args, "-vga", "none") /\ HasPair(args, "-serial", "none") /\ Has(args, "-nographic")
    \/ HasPair(args, "-vga", "virtio")

\* C15: for every VM that is launched, the blocking pty discipline is used
\* exactly when the arguments carry the terminal-mode fragment (-vga none
\* -nographic, no -serial none) and the detached discipline exactly when they
\* carry the background or the graphic fragment; a document without
\* display_mode key gets the terminal arguments and the pty discipline.
C15_ModeEffectsConsistent ==
    \A h \in Hosts : \A k \in Vms(h) :
        LET s == vm[h][k] IN
        \A j \in Calls(s, "run_single_command") :
            /\ s.log[j].arg = "pty" <=> TerminalFragment(s.args)
            /\ s.log[j].arg = "disown" <=> DetachedFragment(s.args)

\* the first position of a list whose type is not among the known ones
\* (0 when every type is known)
FirstUnknown(list, known) ==
    IF \A j \in DOMAIN list : list[j] \in known THEN 0
    ELSE CHOOSE j \in DOMAIN list :
            /\ list[j] \notin known
            /\ \A m \in 1 .. j - 1 : list[m] \in known

\* C16: an unknown type is never skipped.  A host whose host_network has an
\* unknown type creates no resource at or after that entry and none of its
\* VMs is ever started or launched; a VM whose interfaces have an unknown
\* type creates no interface at or after that entry and is never launched.
\* The entry itself ends the run.
C16_UnknownTypeAborts ==
    /\ \A h \in Hosts :
          LET bad == FirstUnknown(cfg[h].host_network.list, {"bridge", "macvlan"})
          IN  /\ bad > 0 =>
                    /\ Len(hosts[h].created) < bad
                    /\ \A k \in Vms(h) : vm[h][k].pc = "notcreated" /\ vm[h][k].log = <<>>
              /\ hosts[h].pc = "failed" =>
                    /\ bad > 0 /\ hosts[h].idx = bad /\ Len(hosts[h].created) = bad - 1
                    /\ aborted
    /\ \A h \in Hosts : \A k \in Vms(h) :
          LET c == cfg[h].vms[k]
              s == vm[h][k]
              bad == IF HasKey(c, "interfaces")
                     THEN FirstUnknown(c.interfaces, {"macvtap", "tap", "user"}) ELSE 0
          IN  /\ bad > 0 =>
                    /\ s.ii <= bad
                    /\ Cardinality(Calls(s, "create")) < bad
                    /\ ~ReachedLaunch(s)
                    /\ Calls(s, "run_single_command") = {}
              /\ s.err = "interface_type" =>
                    /\ bad > 0 /\ s.ii = bad /\ s.pc = "failed" /\ aborted
                    /\ Cardinality(Calls(s, "create")) = bad - 1

C16_Witness ==
    /\ \E h \in Hosts :
          /\ hosts[h].pc = "failed"
          /\ cfg[h].host_network.list = <<"bridge", "vxlan">>
          /\ cfg[h].vms # <<>>
          /\ hosts[h].created = <<"bridge">>

(***************************************************************************)
(* Fair scheduling.  The event loop runs every task that is ready, so a    *)
(* step of the program that stays possible is eventually taken; when the   *)
(* hypervisor of a pty launch exits is up to the hypervisor, not to the    *)
(* program.                                                                *)
(***************************************************************************)
Progress ==
    \/ \E h \in Hosts : ConnectNet(h) \/ CreateNet(h) \/ ConnectVm(h) \/ HostGather(h)
    \/ \E h \in Hosts : \E k \in Vms(h) :
          \/ Check(h, k) \/ Validate(h, k) \/ Create(h, k) \/ GetArgs(h, k)
          \/ EnsureCheck(h, k) \/ EnsureValidate(h, k) \/ EnsureCopy(h, k) \/ Launch(h, k)
    \/ MainGather

\* the runs with several VMs on a host
InitFair == \E sc \in TopologyScenarios \cup HostNetScenarios : InitFrom(sc, TRUE)

SpecFair == InitFair /\ [][Next]_vars /\ WF_vars(Progress)

AllLaunched ==
    \A h \in Hosts : \A k \in Vms(h) : Calls(vm[h][k], "run_single_command") # {}

SomeBlocked == \E h \in Hosts : \E k \in Vms(h) : vm[h][k].pc = "running"

\* C17: under fair scheduling, unless an operation fails, the launch of
\* every VM of every host is eventually submitted, whether or not the
\* hypervisors of pty launches ever exit; a host task is done only when all
\* its VM tasks are done and the run only when all host tasks are; the run
\* ends up finished unless a pty hypervisor is still running.
C17_EveryVmLaunched ==
    /\ [](\A h \in Hosts :
            /\ hosts[h].pc = "done" => \A k \in Vms(h) : vm[h][k].pc = "done"
            /\ mainpc = "done" => hosts[h].pc = "done")
    /\ <>(aborted \/ AllLaunched)
    /\ <>[](aborted \/ mainpc = "done" \/ (AllLaunched /\ SomeBlocked))

C17_Witness ==
    /\ AllLaunched /\ ~aborted /\ mainpc = "gather"
    /\ \E h \in Hosts : \E k1, k2 \in Vms(h) :
          /\ vm[h][k1].pc = "running"
          /\ vm[h][k2].pc = "done"
          /\ hosts[h].pc = "gather"

(***************************************************************************)
(* run_vms_on_single_host called with either value of kill_running_vms     *)
(* (line 163; main always passes True).                                    *)
(***************************************************************************)
HostScenarios ==
    {Scenario(<<HostCfg(None, <<v>>)>>, <<w>>, o) :
        v \in DisplayVms \cup DiskVms, w \in Worlds, o \in BOOLEAN}
    \cup HostNetScenarios

InitHost == \E sc \in HostScenarios : \E kill \in BOOLEAN : InitFrom(sc, kill)

SpecHost == InitHost /\ [][Next]_vars

\* C18: the existence probe of the primary disk, and its in-use probe when
\* the image exists, come before every network resource creation, transfer
\* and launch of the VM; a VM whose primary disk is in use and is not cleared
\* by the kill option ends there: it creates no macvtap or tap device, makes
\* no transfer and is never launched.
C18_PrimaryProbeFirst ==
    \A h \in Hosts : \A k \in Vms(h) :
        LET s == vm[h][k]
            later == Calls(s, "create") \cup Calls(s, "get_args") \cup Calls(s, "ensure_check")
                        \cup Calls(s, "ensure_validate") \cup Calls(s, "copy_to_remote")
                        \cup Calls(s, "run_single_command")
        IN  /\ \A j \in later :
                \E jc \in Calls(s, "check_file_exists") :
                    /\ jc < j
                    /\ s.log[jc].r =>
                          \E jv \in Calls(s, "validate_image_use") : jc < jv /\ jv < j /\ s.log[jv].r
            /\ \A jv \in Calls(s, "validate_image_use") :
                  ~s.log[jv].r =>
                      /\ s.pc = "failed" /\ s.err = "in_use"
                      /\ jv = Len(s.log)
                      /\ later = {}

C18_Witness ==
    \E h \in Hosts : \E k \in Vms(h) :
        LET s == vm[h][k] IN
        /\ ~kill_running_vms
        /\ cfg[h].vms[k].interfaces = <<"tap">> /\ cfg[h].vms[k].keys[1] = "interfaces"
        /\ s.err = "in_use"
        /\ s.log[Len(s.log)] = Ev("validate_image_use", "p1", 0, FALSE)

\* C19: the launch of a VM is submitted at most once, and only when nothing
\* fatal happened in its task: every interface had a recognized type and was
\* created, display_mode (if present) was recognized, and ensure_file_image
\* returned for the primary disk and for every additional disk.
C19_LaunchOnlyAfterSuccess ==
    \A h \in Hosts : \A k \in Vms(h) :
        LET c == cfg[h].vms[k]
            s == vm[h][k]
            Before(op, j) == {m \in Calls(s, op) : m < j}
        IN  /\ Cardinality(Calls(s, "run_single_command")) <= 1
            /\ \A jl \in Calls(s, "run_single_command") :
                  /\ s.err = "" /\ s.pc \in {"running", "done"}
                  /\ HasKey(c, "interfaces") =>
                        /\ \A j \in DOMAIN c.interfaces : c.interfaces[j] \in {"macvtap", "tap", "user"}
                        /\ Cardinality(Before("create", jl)) = Len(c.interfaces)
                        /\ Cardinality(Before("get_args", jl)) = Len(AttachedIfaces(c))
                  /\ DisplayOf(c) \in {"background", "terminal", "graphic", NoDisplay}
                  /\ \A d \in 0 .. NumDisks(c) - 1 :
                        /\ DiskOf(c, d).remote_disk_image_path # ""
                        /\ \E jr \in Before("ensure_return", jl) : s.log[jr].n = d

C19_Witness ==
    \E h \in Hosts : \E k \in Vms(h) :
        LET c == cfg[h].vms[k] IN
        /\ vm[h][k].pc = "done"
        /\ Cardinality(Calls(vm[h][k], "run_single_command")) = 1
        /\ c.keys = <<"virtfs_path", "display_mode", "interfaces">>
        /\ c.interfaces = <<"user", "macvtap">>

\* C20: a hypervisor launched by a VM task of this run is never terminated
\* by the probe of another VM task of the run: its process leaves the
\* process table only when it exits and its own pty launch returns.
C20_NoSiblingKilled ==
    [][\A h \in Hosts : \A k \in Vms(h) :
          ((\E e \in procs[h] : e.owner = k) /\ ~(\E e \in procs'[h] : e.owner = k))
              => (vm[h][k].pc = "running" /\ vm'[h][k].pc = "done")]_vars

====
